---------------------------- MODULE Spec2Model ----------------------------
(***************************************************************************)
(* A model of audit.py: the three extractors (PDF pages, CSV rows, the     *)
(* manual-entry grid), the aggregator generate_audit_report, the renderer  *)
(* create_pdf with its clean_text pass, and the report button's handling   *)
(* of the temporary PDF file.                                              *)
(*                                                                         *)
(* Text is a sequence of tokens.  A token is one character ("a", "-"), a  *)
(* named character outside ASCII ("RUPEE", "EMDASH", ...), or, in PDF page *)
(* lines, an indivisible lexeme ("Total:", "Invoice").  Money is a whole   *)
(* number of rupees held in a Python float, which is either a number or    *)
(* NaN.                                                                    *)
(***************************************************************************)
EXTENDS Integers, Sequences, FiniteSets, TLC

VARIABLES
    \* ---- main(): the upload loop and the manual-entry loop
    input_method,     \* st.radio: "Upload Documents" or "Manual Entry"
    uploaded_files,   \* st.file_uploader: the batch, in upload order
    file_idx,         \* position of the `for uploaded_file in ...` loop
    all_docs,         \* main()'s all_docs
    edited_df,        \* st.data_editor: the rows of the grid
    row_idx,          \* position of the `for _, row in edited_df.iterrows()` loop
    documents,        \* main()'s documents, handed to the aggregator
    st_errors,        \* st.error calls: indices of the files reported
    st_warnings,      \* st.warning calls: <<file index, row index>>
    now,              \* datetime.now().strftime("%Y-%m-%d")
    \* ---- the report button
    start_date,       \* st.date_input, a date <<y, m, d>>
    end_date,
    pc,               \* position in the handler
    report,           \* what generate_audit_report returned
    exc,              \* the exception that ended the handler, or "none"
    disk,             \* the temporary files that exist
    pdf_path,         \* create_pdf's return value
    \* ---- create_pdf
    business_name,    \* st.text_input
    report_text,      \* the report handed to create_pdf
    pdf_calls         \* the txt of every pdf.cell / pdf.multi_cell call

extractVars == <<input_method, uploaded_files, file_idx, all_docs, edited_df,
                 row_idx, documents, st_errors, st_warnings, now>>
buttonVars  == <<start_date, end_date, pc, report, exc, disk, pdf_path>>
renderVars  == <<business_name, report_text, pdf_calls>>
vars        == <<extractVars, buttonVars, renderVars>>

-----------------------------------------------------------------------------
(* Python values and text                                                   *)

\* A Python float: a number or NaN.
Num(n) == [nan |-> FALSE, v |-> n]
NaN    == [nan |-> TRUE,  v |-> 0]

\* A cell value as Python sees it: a str, a number, float('nan') or None.
PyStr(s) == [t |-> "str",  s |-> s,    v |-> 0]
PyNum(n) == [t |-> "num",  s |-> <<>>, v |-> n]
PyNaN    == [t |-> "nan",  s |-> <<>>, v |-> 0]
PyNone   == [t |-> "None", s |-> <<>>, v |-> 0]

Digits == {"0", "1", "2", "3", "4", "5", "6", "7", "8", "9"}
DigitVal(c) ==
    CASE c = "0" -> 0 [] c = "1" -> 1 [] c = "2" -> 2 [] c = "3" -> 3
      [] c = "4" -> 4 [] c = "5" -> 5 [] c = "6" -> 6 [] c = "7" -> 7
      [] c = "8" -> 8 [] c = "9" -> 9

RECURSIVE DigitsVal(_)
DigitsVal(s) ==
    IF s = <<>> THEN 0
    ELSE 10 * DigitsVal(SubSeq(s, 1, Len(s) - 1)) + DigitVal(s[Len(s)])

AllDigits(s) == s # <<>> /\ \A i \in 1..Len(s) : s[i] \in Digits

RECURSIVE IntText(_)
IntText(n) ==
    IF n < 0 THEN <<"-">> \o IntText(0 - n)
    ELSE IF n < 10 THEN <<CHOOSE c \in Digits : DigitVal(c) = n>>
    ELSE IntText(n \div 10) \o <<CHOOSE c \in Digits : DigitVal(c) = n % 10>>

\* str.upper() and str.lower(), on the letters the model's texts use.
UpperCh(c) ==
    CASE c = "a" -> "A" [] c = "b" -> "B" [] c = "c" -> "C" [] c = "e" -> "E"
      [] c = "g" -> "G" [] c = "i" -> "I" [] c = "l" -> "L" [] c = "m" -> "M"
      [] c = "n" -> "N" [] c = "o" -> "O" [] c = "p" -> "P" [] c = "s" -> "S"
      [] c = "t" -> "T" [] c = "v" -> "V" [] c = "x" -> "X"
      [] OTHER -> c
LowerCh(c) ==
    CASE c = "A" -> "a" [] c = "B" -> "b" [] c = "C" -> "c" [] c = "E" -> "e"
      [] c = "G" -> "g" [] c = "I" -> "i" [] c = "L" -> "l" [] c = "M" -> "m"
      [] c = "N" -> "n" [] c = "O" -> "o" [] c = "P" -> "p" [] c = "S" -> "s"
      [] c = "T" -> "t" [] c = "V" -> "v" [] c = "X" -> "x"
      [] OTHER -> c
Upper(s) == [i \in 1..Len(s) |-> UpperCh(s[i])]
Lower(s) == [i \in 1..Len(s) |-> LowerCh(s[i])]

\* `sub in s`
Contains(sub, s) ==
    \E i \in 1..(Len(s) - Len(sub) + 1) : SubSeq(s, i, i + Len(sub) - 1) = sub

\* s.replace(tok, "") for a one-token tok
RECURSIVE Remove(_, _)
Remove(s, tok) ==
    IF s = <<>> THEN <<>>
    ELSE IF Head(s) = tok THEN Remove(Tail(s), tok)
    ELSE <<Head(s)>> \o Remove(Tail(s), tok)

\* s.strip(): whitespace off both ends
RECURSIVE LStrip(_)
LStrip(s) == IF s # <<>> /\ Head(s) = " " THEN LStrip(Tail(s)) ELSE s
RECURSIVE RStrip(_)
RStrip(s) ==
    IF s # <<>> /\ s[Len(s)] = " " THEN RStrip(SubSeq(s, 1, Len(s) - 1)) ELSE s
Strip(s) == LStrip(RStrip(s))

\* s.split(sep) for a one-token sep: the pieces between the separators
RECURSIVE SplitOn(_, _)
SplitOn(s, sep) ==
    IF \A i \in 1..Len(s) : s[i] # sep THEN <<s>>
    ELSE LET i == CHOOSE k \in 1..Len(s) :
                      s[k] = sep /\ \A j \in 1..(k - 1) : s[j] # sep
         IN  <<SubSeq(s, 1, i - 1)>> \o SplitOn(SubSeq(s, i + 1, Len(s)), sep)

\* float(str): surrounding whitespace is ignored; an optional sign and
\* digits give a number; "nan" in any case gives NaN; anything else raises
\* ValueError.  (The texts of this model hold no decimal point or exponent.)
ParseFloat(s) ==
    LET b    == Strip(s)
        neg  == b # <<>> /\ Head(b) = "-"
        body == IF b # <<>> /\ Head(b) \in {"-", "+"} THEN Tail(b) ELSE b
    IN  IF AllDigits(body)
        THEN [ok |-> TRUE,
              val |-> Num(IF neg THEN 0 - DigitsVal(body) ELSE DigitsVal(body))]
        ELSE IF Lower(body) = <<"n", "a", "n">>
        THEN [ok |-> TRUE, val |-> NaN]
        ELSE [ok |-> FALSE, val |-> NaN]

\* float(x): ok = FALSE stands for the ValueError / TypeError it raises
float(x) ==
    CASE x.t = "num"  -> [ok |-> TRUE, val |-> Num(x.v)]
      [] x.t = "nan"  -> [ok |-> TRUE, val |-> NaN]
      [] x.t = "None" -> [ok |-> FALSE, val |-> NaN]
      [] x.t = "str"  -> ParseFloat(x.s)

\* str(x)
str(x) ==
    CASE x.t = "str"  -> x.s
      [] x.t = "num"  -> IntText(x.v)
      [] x.t = "nan"  -> <<"n", "a", "n">>
      [] x.t = "None" -> <<"N", "o", "n", "e">>

-----------------------------------------------------------------------------
(* class Document                                                           *)

Document(id, date, vendor, amount, gst, type) ==
    [id |-> id, date |-> date, vendor |-> vendor,
     amount |-> amount, gst |-> gst, type |-> type]

income  == <<"i", "n", "c", "o", "m", "e">>
expense == <<"e", "x", "p", "e", "n", "s", "e">>
Unknown == <<"U", "n", "k", "n", "o", "w", "n">>


-----------------------------------------------------------------------------
(* extract_data_from_pdf                                                    *)

HashMod == 1000000

HasTok(line, tok) == \E i \in 1..Len(line) : line[i] = tok

\* The number text of a Total: / GST: line, as handed to float().
NumberText(line, label) ==
    Strip(Remove(Remove(Remove(line, label), "RUPEE"), ","))

\* One iteration of `for line in lines`.  st holds the page's fields so far
\* and raised, set when float() raised ValueError.
\* The assignment of float()'s result, or the ValueError it raised.
SetAmount(st, f) ==
    IF f.ok THEN [st EXCEPT !.amount = f.val] ELSE [st EXCEPT !.raised = TRUE]
SetGst(st, f) ==
    IF f.ok THEN [st EXCEPT !.gst = f.val] ELSE [st EXCEPT !.raised = TRUE]
ScanLine(st, line) ==
    IF st.raised THEN st
    ELSE IF HasTok(line, "Vendor:")
    THEN [st EXCEPT !.vendor = Strip(Remove(line, "Vendor:"))]
    ELSE IF HasTok(line, "Date:")
    THEN [st EXCEPT !.date = Strip(Remove(line, "Date:"))]
    ELSE IF HasTok(line, "Total:")
    THEN SetAmount(st, ParseFloat(NumberText(line, "Total:")))
    ELSE IF HasTok(line, "GST:")
    THEN SetGst(st, ParseFloat(NumberText(line, "GST:")))
    ELSE st

\* `for line in lines`: s is the state after the first line.
RECURSIVE ScanLines(_, _)
ScanLines(st, lines) ==
    IF lines = <<>> THEN st
    ELSE CHOOSE r \in {ScanLines(s, Tail(lines)) : s \in {ScanLine(st, Head(lines))}} :
            TRUE

\* One iteration of `for page in pdf.pages`: the Document of the page, or
\* raised.  today is datetime.now().strftime("%Y-%m-%d").
ExtractPage(page, today) ==
    LET st == ScanLines([vendor |-> Unknown, date |-> today, amount |-> Num(0),
                         gst |-> Num(0), raised |-> FALSE], page.lines)
        doc_id   == <<"P", "D", "F", "-">> \o IntText(page.hash % HashMod)
        doc_type == IF \E i \in 1..Len(page.lines) : HasTok(page.lines[i], "Invoice")
                    THEN expense ELSE income
    IN  [raised |-> st.raised,
         doc    |-> Document(doc_id, st.date, st.vendor, st.amount, st.gst, doc_type)]

\* PdfPages with the slip of returning the pages read before the failing
\* one instead of letting the exception out.
RECURSIVE PdfPages_KeepEarlierPages(_, _, _)
PdfPages_KeepEarlierPages(pages, today, documents_) ==
    IF pages = <<>> THEN [raised |-> FALSE, documents |-> documents_]
    ELSE LET r == ExtractPage(Head(pages), today)
         IN  IF r.raised THEN [raised |-> FALSE, documents |-> documents_]
             ELSE PdfPages_KeepEarlierPages(Tail(pages), today,
                                            Append(documents_, r.doc))

\* The page loop: documents collects the pages' Documents; an exception
\* leaves the function, and its local documents list is lost with it.
RECURSIVE PdfPages(_, _, _)
PdfPages(pages, today, documents_) ==
    IF pages = <<>> THEN [raised |-> FALSE, documents |-> documents_]
    ELSE LET r == ExtractPage(Head(pages), today)
         IN  IF r.raised THEN [raised |-> TRUE, documents |-> <<>>]
             ELSE PdfPages(Tail(pages), today, Append(documents_, r.doc))

extract_data_from_pdf(pdf_file, today) ==
    LET r == PdfPages(pdf_file.pages, today, <<>>)
    IN  [raised |-> r.raised, documents |-> r.documents, warned |-> <<>>]

-----------------------------------------------------------------------------
(* extract_data_from_csv                                                    *)

ColNames == {"id", "invoice_no", "date", "vendor", "amount", "gst", "type"}

\* pd.read_csv reads an empty cell, and a cell holding one of its NA words,
\* as NaN; any other cell keeps its text.
NaTexts == {<<"N", "A">>, <<"n", "a", "n">>}
read_cell(raw) == IF raw = <<>> \/ raw \in NaTexts THEN PyNaN ELSE PyStr(raw)

\* row.get(col, default) on a row of a table with the given columns
row_get(table, row, col, default) ==
    IF col \in table.columns THEN read_cell(row[col]) ELSE default

\* The body of the try block for the row at index i: the Document, or
\* ok = FALSE when a conversion raised.
CsvRow(table, row, i, today) ==
    LET id_     == row_get(table, row, "id",
                     row_get(table, row, "invoice_no",
                        PyStr(<<"C", "S", "V", "-">> \o IntText(i))))
        date_   == row_get(table, row, "date", PyStr(today))
        vendor_ == row_get(table, row, "vendor", PyStr(Unknown))
        amount_ == float(row_get(table, row, "amount", PyNum(0)))
        gst_    == float(row_get(table, row, "gst", PyNum(0)))
        type_   == row_get(table, row, "type", PyStr(expense))
    IN  [ok  |-> amount_.ok /\ gst_.ok,
         doc |-> Document(str(id_), str(date_), str(vendor_),
                          amount_.val, gst_.val, Lower(str(type_)))]

\* CsvRows with the slip of leaving the loop at the first row that raised.
RECURSIVE CsvRows_StopAtFailure(_, _, _, _)
CsvRows_StopAtFailure(table, i, today, acc) ==
    IF i > Len(table.rows) THEN acc
    ELSE LET r == CsvRow(table, table.rows[i], i - 1, today)
         IN  IF r.ok
             THEN CsvRows_StopAtFailure(table, i + 1, today,
                     [acc EXCEPT !.documents = Append(@, r.doc)])
             ELSE [acc EXCEPT !.warned = Append(@, i - 1)]

\* `for _, row in df.iterrows()`, from row index i on: a row that raised
\* is warned about and skipped.
RECURSIVE CsvRows(_, _, _, _)
CsvRows(table, i, today, acc) ==
    IF i > Len(table.rows) THEN acc
    ELSE LET r == CsvRow(table, table.rows[i], i - 1, today)
         IN  CsvRows(table, i + 1, today,
                IF r.ok THEN [acc EXCEPT !.documents = Append(@, r.doc)]
                ELSE [acc EXCEPT !.warned = Append(@, i - 1)])

\* pd.read_csv raises EmptyDataError on a file with no columns.
extract_data_from_csv(csv_file, today) ==
    IF csv_file.columns = {}
    THEN [raised |-> TRUE, documents |-> <<>>, warned |-> <<>>]
    ELSE CsvRows(csv_file, 1, today,
                 [raised |-> FALSE, documents |-> <<>>, warned |-> <<>>])

-----------------------------------------------------------------------------
(* main(): the manual-entry grid                                             *)

\* The body of the try block for one row of edited_df.
GridRow(row) ==
    LET amount_ == float(row.Amount)
        gst_    == float(row.GST)
    IN  [ok  |-> amount_.ok /\ gst_.ok,
         doc |-> Document(str(row.ID), str(row.Date), str(row.Vendor),
                          amount_.val, gst_.val, Lower(str(row.Type)))]


-----------------------------------------------------------------------------
(* create_pdf, lines 173-209                                                *)

\* The characters of the model that latin-1 cannot encode: the keys of
\* clean_text's table, and two characters the table does not list.
TableKeys ==
    {"EMOJI_REPORT", "EMOJI_DATE", "EMOJI_SUMMARY", "EMOJI_ANALYSIS",
     "EMOJI_GST", "EMOJI_AI", "CHECKMARK", "RUPEE", "LSQUO", "RSQUO",
     "LDQUO", "RDQUO", "ENDASH", "EMDASH", "ELLIPSIS"}
NonLatin1 == TableKeys \cup {"CJK", "SPARKLES"}

\* clean_text's replacements, in the dict's order.
replacements ==
    << <<"EMOJI_REPORT", <<"[", "R", "E", "P", "O", "R", "T", "]">> >>,
       <<"EMOJI_DATE", <<"[", "D", "A", "T", "E", "]">> >>,
       <<"EMOJI_SUMMARY", <<"[", "S", "U", "M", "M", "A", "R", "Y", "]">> >>,
       <<"EMOJI_ANALYSIS", <<"[", "A", "N", "A", "L", "Y", "S", "I", "S", "]">> >>,
       <<"EMOJI_GST", <<"[", "G", "S", "T", "]">> >>,
       <<"EMOJI_AI", <<"[", "A", "I", "]">> >>,
       <<"CHECKMARK", <<"[", "C", "H", "E", "C", "K", "]">> >>,
       <<"RUPEE", <<"R", "s", ".">> >>,
       <<"LSQUO", <<"'">> >>, <<"RSQUO", <<"'">> >>,
       <<"LDQUO", <<"\"">> >>, <<"RDQUO", <<"\"">> >>,
       <<"ENDASH", <<"-">> >>, <<"EMDASH", <<"-">> >>,
       <<"ELLIPSIS", <<".", ".", ".">> >> >>

\* text.replace(k, v) for a one-character k
RECURSIVE Replace(_, _, _)
Replace(text, k, v) ==
    IF text = <<>> THEN <<>>
    ELSE (IF Head(text) = k THEN v ELSE <<Head(text)>>) \o Replace(Tail(text), k, v)

\* `for k, v in replacements.items(): text = text.replace(k, v)`, from
\* entry i on.
RECURSIVE ReplaceFrom(_, _)
ReplaceFrom(text, i) ==
    IF i > Len(replacements) THEN text
    ELSE ReplaceFrom(Replace(text, replacements[i][1], replacements[i][2]), i + 1)

\* text.encode('latin-1', 'replace').decode('latin-1')
EncodeLatin1(text) ==
    [i \in 1..Len(text) |-> IF text[i] \in NonLatin1 THEN "?" ELSE text[i]]

\* clean_text without the encode step.
clean_text_NoEncode(text) == ReplaceFrom(text, 1)

clean_text(text) == EncodeLatin1(ReplaceFrom(text, 1))

\* s.split(sep) for a separator of several characters
RECURSIVE SplitSeq(_, _)
SplitSeq(s, sep) ==
    IF ~Contains(sep, s) THEN <<s>>
    ELSE LET i == CHOOSE k \in 1..(Len(s) - Len(sep) + 1) :
                      /\ SubSeq(s, k, k + Len(sep) - 1) = sep
                      /\ \A j \in 1..(k - 1) : SubSeq(s, j, j + Len(sep) - 1) # sep
         IN  <<SubSeq(s, 1, i - 1)>> \o SplitSeq(SubSeq(s, i + Len(sep), Len(s)), sep)

\* '\n'.join(pieces)
RECURSIVE Join(_)
Join(pieces) ==
    IF Len(pieces) = 0 THEN <<>>
    ELSE IF Len(pieces) = 1 THEN pieces[1]
    ELSE pieces[1] \o <<"NL">> \o Join(Tail(pieces))

\* str(date): YYYY-MM-DD
Pad(text, n) == IF Len(text) < n THEN [i \in 1..(n - Len(text)) |-> "0"] \o text ELSE text
DateText(d) ==
    Pad(IntText(d[1]), 4) \o <<"-">> \o Pad(IntText(d[2]), 2) \o <<"-">> \o Pad(IntText(d[3]), 2)

AuditReport == <<" ", "-", " ", "A", "u", "d", "i", "t", " ", "R", "e", "p", "o", "r", "t">>
Period      == <<"P", "e", "r", "i", "o", "d", ":", " ">>
To          == <<" ", "t", "o", " ">>

\* A call of pdf.cell / pdf.multi_cell: txt is the text handed over; raw is
\* the text it was made from, before clean_text and strip.
Call(raw, txt) == [raw |-> raw, txt |-> txt]

\* Lines 199-203: the section's title.
TitleCall(section) ==
    LET raw == SplitOn(section, "NL")[1] IN Call(raw, clean_text(raw))

\* Lines 200, 206-208: the section's lines that are not blank, stripped.
RECURSIVE BodyCalls(_, _)
BodyCalls(raws, lines) ==
    IF lines = <<>> THEN <<>>
    ELSE (IF Strip(Head(lines)) # <<>>
          THEN <<Call(Head(raws), Strip(Head(lines)))>> ELSE <<>>)
            \o BodyCalls(Tail(raws), Tail(lines))

SectionCalls(section) ==
    LET raws    == Tail(SplitOn(section, "NL"))
        content == Join([i \in 1..Len(raws) |-> clean_text(raws[i])])
    IN  <<TitleCall(section)>> \o BodyCalls(raws, SplitOn(content, "NL"))

RECURSIVE SectionsCalls(_)
SectionsCalls(sections) ==
    IF sections = <<>> THEN <<>>
    ELSE SectionCalls(Head(sections)) \o SectionsCalls(Tail(sections))

\* Every cell / multi_cell call of create_pdf, in order.
PdfCalls(text, name, start, end) ==
    LET title  == name \o AuditReport
        period == Period \o DateText(start) \o To \o DateText(end)
    IN  <<Call(title, clean_text(title)), Call(period, clean_text(period))>>
          \o SectionsCalls(Tail(SplitSeq(text, <<"#", "#", " ">>)))

\* create_pdf up to line 209: the page is laid out.
RenderPdf ==
    /\ pdf_calls = <<>>
    /\ pdf_calls' = PdfCalls(report_text, business_name, start_date, end_date)
    /\ UNCHANGED <<business_name, report_text>>
    /\ UNCHANGED <<extractVars, buttonVars>>

-----------------------------------------------------------------------------
(* generate_audit_report                                                    *)

IsLeap(y) == (y % 4 = 0 /\ y % 100 # 0) \/ y % 400 = 0
DaysInMonth(y, m) ==
    IF m = 2 THEN (IF IsLeap(y) THEN 28 + 1 ELSE 28)
    ELSE IF m \in {4, 6, 9, 11} THEN 30 ELSE 31

\* datetime.strptime(text, "%Y-%m-%d").date(): four digits, one or two
\* digits, one or two digits, naming a day of the calendar; ok = FALSE
\* stands for the ValueError it raises otherwise.
strptime(text) ==
    LET parts == SplitOn(text, "-")
        wellFormed ==
            /\ Len(parts) = 3
            /\ AllDigits(parts[1]) /\ Len(parts[1]) = 4
            /\ AllDigits(parts[2]) /\ Len(parts[2]) \in {1, 2}
            /\ AllDigits(parts[3]) /\ Len(parts[3]) \in {1, 2}
        y == DigitsVal(parts[1])
        m == DigitsVal(parts[2])
        d == DigitsVal(parts[3])
    IN  IF wellFormed /\ y >= 1 /\ m \in 1..12 /\ d \in 1..DaysInMonth(y, m)
        THEN [ok |-> TRUE, date |-> <<y, m, d>>]
        ELSE [ok |-> FALSE, date |-> <<>>]

\* a <= b on dates
DateLE(a, b) ==
    \/ a[1] < b[1]
    \/ a[1] = b[1] /\ a[2] < b[2]
    \/ a[1] = b[1] /\ a[2] = b[2] /\ a[3] <= b[3]

\* Lines 219-226: the documents whose date parses and lies in the window.
RECURSIVE FilterDocs(_, _, _)
FilterDocs(docs, start, end) ==
    IF docs = <<>> THEN <<>>
    ELSE LET p == strptime(Head(docs).date)
         IN  (IF p.ok /\ DateLE(start, p.date) /\ DateLE(p.date, end)
              THEN <<Head(docs)>> ELSE <<>>)
                 \o FilterDocs(Tail(docs), start, end)

\* df[df['type'] == t]['amount'].sum(): pandas leaves NaN out of a sum.
RECURSIVE AmountSum(_, _)
AmountSum(docs, t) ==
    IF docs = <<>> THEN 0
    ELSE (IF Head(docs).type = t /\ ~Head(docs).amount.nan
          THEN Head(docs).amount.v ELSE 0) + AmountSum(Tail(docs), t)

\* An exact quotient n/d * 100, kept as a fraction.
Percent(n, d) == [num |-> n * 100, den |-> d]
Zero == [num |-> 0, den |-> 1]

\* x > 0 on a float: False for NaN
Positive(x) == ~x.nan /\ x.v > 0

\* Line 270: the documents with gst > 0.
RECURSIVE GstDocs(_)
GstDocs(docs) ==
    IF docs = <<>> THEN <<>>
    ELSE (IF Positive(Head(docs).gst) THEN <<Head(docs)>> ELSE <<>>)
            \o GstDocs(Tail(docs))

RECURSIVE GstSum(_)
GstSum(docs) == IF docs = <<>> THEN 0 ELSE Head(docs).gst.v + GstSum(Tail(docs))

GstTokens == {<<"G", "S", "T">>, <<"I", "N", "V">>, <<"B", "I", "L", "L">>}

\* HighGst with >= in place of >.
HighGst_AtLeast(doc) == ~doc.amount.nan /\ doc.gst.v * 10 >= doc.amount.v * 3

\* doc.gst > doc.amount * 0.3, on whole rupees; False when amount is NaN
HighGst(doc) == ~doc.amount.nan /\ doc.gst.v * 10 > doc.amount.v * 3

\* Lines 278-281: the issues one GST document adds.
DocIssues(doc) ==
    (IF ~\E x \in GstTokens : Contains(x, Upper(doc.id))
     THEN << <<"Invalid document ID", doc.id>> >> ELSE <<>>)
      \o (IF HighGst(doc)
          THEN << <<"Unusual GST amount", doc.gst, doc.amount>> >> ELSE <<>>)

RECURSIVE GstIssues(_)
GstIssues(gst_docs) ==
    IF gst_docs = <<>> THEN <<>>
    ELSE DocIssues(Head(gst_docs)) \o GstIssues(Tail(gst_docs))

IssueCap == 3

\* gst_issues[:3]
Listed(gst_issues) == SubSeq(gst_issues, 1, IF Len(gst_issues) < IssueCap
                                               THEN Len(gst_issues) ELSE IssueCap)

\* Lines 268-288: the lines of the GST Compliance section.
GstSection(filtered_docs) ==
    LET gst_docs == GstDocs(filtered_docs)
    IN  IF gst_docs # <<>>
        THEN << <<"Total GST Processed", GstSum(gst_docs)>> >>
               \o (IF GstIssues(gst_docs) # <<>>
                   THEN << <<"GST Issues">> >> \o Listed(GstIssues(gst_docs))
                   ELSE <<>>)
        ELSE << <<"No GST-related transactions found">> >>

\* The figures and the GST section of the report.  pd.DataFrame([]) has no
\* columns, so with no filtered document df['type'] raises KeyError.  (The
\* vendor rankings, insights and recommendations are not modelled.)
generate_audit_report(start, end, docs) ==
    LET filtered_docs == FilterDocs(docs, start, end)
        total_income  == AmountSum(filtered_docs, income)
        total_expense == AmountSum(filtered_docs, expense)
    IN  IF filtered_docs = <<>>
        THEN [raised |-> TRUE, report |-> <<>>]
        ELSE [raised |-> FALSE,
              report |->
                [total_invoices |-> Len(filtered_docs),
                 total_income   |-> total_income,
                 total_expense  |-> total_expense,
                 net_balance    |-> total_income - total_expense,
                 expense_ratio  |-> IF total_income > 0
                                    THEN Percent(total_expense, total_income)
                                    ELSE Zero,
                 profit_margin  |-> IF total_income > 0
                                    THEN Percent(total_income - total_expense,
                                                 total_income)
                                    ELSE Zero,
                 gst            |-> GstSection(filtered_docs)]]

-----------------------------------------------------------------------------
(* main(): the report button (lines 425-453)                                 *)

TmpName == "tmp.pdf"

\* Lines 426-437: no documents stops the run; otherwise the report is
\* generated, and an exception of generate_audit_report ends the run.
ClickGenerate ==
    /\ pc = "idle"
    /\ IF documents = <<>>
       THEN pc' = "stopped" /\ UNCHANGED <<report, exc>>
       ELSE LET r == generate_audit_report(start_date, end_date, documents)
            IN  IF r.raised
                THEN pc' = "failed" /\ exc' = "KeyError" /\ UNCHANGED report
                ELSE pc' = "reported" /\ report' = r.report /\ UNCHANGED exc
    /\ UNCHANGED <<start_date, end_date, disk, pdf_path>>
    /\ UNCHANGED <<extractVars, renderVars>>

\* Line 444 with lines 211-214: create_pdf makes the temporary file
\* (delete=False) and writes the PDF into it; the write can fail (a full
\* disk), and the exception leaves create_pdf and the handler.
CreatePdf ==
    /\ pc = "reported"
    /\ disk' = disk \cup {TmpName}
    /\ \/ pc' = "created" /\ pdf_path' = TmpName /\ UNCHANGED exc
       \/ pc' = "failed" /\ exc' = "OSError" /\ UNCHANGED pdf_path
    /\ UNCHANGED <<start_date, end_date, report>>
    /\ UNCHANGED <<extractVars, renderVars>>

\* Lines 445-452: the file is opened and handed to st.download_button;
\* either call can raise, and the exception leaves the handler.
HandOff ==
    /\ pc = "created"
    /\ \/ pc' = "served" /\ UNCHANGED exc
       \/ pc' = "failed" /\ exc' = "HandOffError"
    /\ UNCHANGED <<start_date, end_date, report, disk, pdf_path>>
    /\ UNCHANGED <<extractVars, renderVars>>

\* Line 453: os.unlink(pdf_path), reached only when nothing raised.
Unlink ==
    /\ pc = "served"
    /\ disk' = disk \ {pdf_path}
    /\ pc' = "done"
    /\ UNCHANGED <<start_date, end_date, report, exc, pdf_path>>
    /\ UNCHANGED <<extractVars, renderVars>>

-----------------------------------------------------------------------------
(* main(): the upload loop (lines 362-379) and the grid loop (401-413)       *)

IsPdf(f) == f.kind = "pdf"

\* The try block of one uploaded file.
ExtractFile(f, today) ==
    IF IsPdf(f) THEN extract_data_from_pdf(f, today)
    ELSE extract_data_from_csv(f, today)

\* One iteration of `for uploaded_file in uploaded_files`; after the last
\* one, `if all_docs: documents = all_docs`.
ProcessUploadedFile ==
    /\ input_method = "Upload Documents"
    /\ file_idx <= Len(uploaded_files)
    /\ LET r    == ExtractFile(uploaded_files[file_idx], now)
           docs == IF r.raised THEN all_docs ELSE all_docs \o r.documents
       IN  /\ all_docs' = docs
           /\ st_errors' = IF r.raised THEN Append(st_errors, file_idx)
                           ELSE st_errors
           /\ st_warnings' = st_warnings \o
                 [k \in 1..Len(r.warned) |-> <<file_idx, r.warned[k]>>]
           /\ documents' = IF file_idx = Len(uploaded_files) /\ docs # <<>>
                           THEN docs ELSE documents
    /\ file_idx' = file_idx + 1
    /\ UNCHANGED <<input_method, uploaded_files, edited_df, row_idx, now>>
    /\ UNCHANGED <<buttonVars, renderVars>>

\* One iteration of `for _, row in edited_df.iterrows()`.
ConvertGridRow ==
    /\ input_method = "Manual Entry"
    /\ row_idx <= Len(edited_df)
    /\ LET r == GridRow(edited_df[row_idx])
       IN  /\ documents' = IF r.ok THEN Append(documents, r.doc) ELSE documents
           /\ st_warnings' = IF r.ok THEN st_warnings
                             ELSE Append(st_warnings, <<0, row_idx - 1>>)
    /\ row_idx' = row_idx + 1
    /\ UNCHANGED <<input_method, uploaded_files, file_idx, all_docs, edited_df,
                   st_errors, now>>
    /\ UNCHANGED <<buttonVars, renderVars>>

-----------------------------------------------------------------------------
(* The inputs of the extractors                                             *)

MaxFiles == 2
MaxRows  == 2

D0605 == <<"2", "0", "2", "3", "-", "0", "6", "-", "0", "5">>
D0630 == <<"2", "0", "2", "3", "-", "0", "6", "-", "3", "0">>
D0701 == <<"2", "0", "2", "3", "-", "0", "7", "-", "0", "1">>
DSlash == <<"0", "5", "/", "0", "6", "/", "2", "0", "2", "3">>

PageOk ==
    [hash |-> 1000042,
     lines |-> << <<"T", "a", "x", " ", "Invoice">>,
                  <<"Vendor:", " ", "A", " ">>,
                  <<"Date:", " ">> \o D0605,
                  <<"Total:", " ", "RUPEE", "1", ",", "0", "0", "0">>,
                  <<"GST:", " ", "1", "8", "0">> >>]
PageNegative ==
    [hash |-> 7,
     lines |-> << <<"Total:", " ", "-", "5", "0">>, <<"GST:", "-", "9">> >>]
PageBadTotal ==
    [hash |-> 8,
     lines |-> << <<"Vendor:", " ", "B">>, <<"Total:", " ", "N", "/", "A">> >>]
PageBadGst ==
    [hash |-> 9,
     lines |-> << <<"Total:", " ", "2", "0">>, <<"GST:", " ", "1", "8", "%">> >>]
PageBlank == [hash |-> 0, lines |-> << <<>> >>]
PageVendorTotal ==
    [hash |-> 10,
     lines |-> << <<"Vendor:", " ", "C", " ", "Total:", " ", "N", "/", "A">>,
                  <<"GST:", " ", "n", "a", "n">> >>]
PageSet == {PageOk, PageNegative, PageBadTotal, PageBadGst, PageBlank, PageVendorTotal}

PdfFile(ps) == [kind |-> "pdf", pages |-> ps]
PdfFiles ==
    {PdfFile(<<p>>) : p \in PageSet}
      \cup {PdfFile(<<PageOk, PageBadGst>>), PdfFile(<<PageOk, PageNegative>>),
             PdfFile(<<PageBadTotal, PageNegative>>)}

CsvRowOf(id, date, vendor, amount, gst, type) ==
    [id |-> id, invoice_no |-> <<"B", "I", "L", "L", "7">>, date |-> date,
     vendor |-> vendor, amount |-> amount, gst |-> gst, type |-> type]
RowFull ==
    CsvRowOf(<<"I", "N", "V", "1">>, D0605, <<"A">>, <<"1", "0", "0">>,
             <<"1", "8">>, <<"I", "n", "c", "o", "m", "e">>)
RowEmptyCells == CsvRowOf(<<"X", "2">>, D0605, <<>>, <<>>, <<>>, expense)
RowNaVendor ==
    CsvRowOf(<<"X", "3">>, D0630, <<"N", "A">>, <<"7">>, <<>>, expense)
RowBadAmount ==
    CsvRowOf(<<"X", "4">>, D0605, <<"B">>, <<"x">>, <<"1">>, expense)
RowBadGst ==
    CsvRowOf(<<"X", "5">>, D0605, <<"B">>, <<"5">>, <<"1", "8", "%">>, income)
RowNegative ==
    CsvRowOf(<<"X", "6">>, D0701, <<"B">>, <<"-", "5", "0">>, <<"-", "9">>, income)
RowSet == {RowFull, RowEmptyCells, RowNaVendor, RowBadAmount, RowBadGst, RowNegative}

CsvFile(cols, rows) == [kind |-> "csv", columns |-> cols, rows |-> rows]
CsvFiles ==
    {CsvFile(ColNames, <<r>>) : r \in RowSet}
      \cup {CsvFile(ColNames, <<RowFull, RowBadAmount>>),
             CsvFile(ColNames, <<RowBadAmount, RowNegative>>),
             CsvFile(ColNames, <<RowBadGst, RowFull>>),
             CsvFile(ColNames, <<RowEmptyCells, RowNaVendor>>)}
      \cup {CsvFile(c, <<r>>) :
               c \in {{"date", "type"}, ColNames \ {"id"}},
               r \in {RowFull, RowEmptyCells}}
      \cup {CsvFile({}, <<>>)}

FileSet == PdfFiles \cup CsvFiles

GridRowOf(id, date, vendor, amount, gst, type) ==
    [ID |-> id, Date |-> date, Vendor |-> vendor,
     Amount |-> amount, GST |-> gst, Type |-> type]
GridRowSet ==
    {GridRowOf(PyStr(<<"I", "N", "V", "1">>), PyStr(D0605), PyStr(<<"A">>),
               PyNum(150), PyNum(27), PyStr(<<"I", "n", "c", "o", "m", "e">>)),
     GridRowOf(PyStr(<<"X", "2">>), PyStr(D0605), PyStr(<<"B">>),
               PyNum(0 - 50), PyNum(0 - 9), PyStr(expense)),
     GridRowOf(PyNone, PyNone, PyNone, PyNone, PyNone, PyNone),
     GridRowOf(PyStr(<<"X", "4">>), PyStr(D0630), PyNone,
               PyNaN, PyNaN, PyStr(expense)),
     GridRowOf(PyStr(<<"X", "5">>), PyStr(D0605), PyStr(<<"B">>),
               PyNum(5), PyNone, PyStr(income)),
     GridRowOf(PyStr(<<"X", "6">>), PyStr(D0605), PyStr(<<"B">>),
               PyStr(<<"x">>), PyNum(1), PyStr(income))}

SeqsUpTo(S, n) == UNION {[1..k -> S] : k \in 0..n}

\* The values the variables of the other parts hold while a part runs alone.
ButtonIdle ==
    /\ start_date = <<2023, 6, 1>> /\ end_date = <<2023, 6, 30>>
    /\ pc = "idle" /\ report = <<>> /\ exc = "none"
    /\ disk = {} /\ pdf_path = "none"
RenderIdle ==
    /\ business_name = <<>> /\ report_text = <<>> /\ pdf_calls = <<>>

InitExtract ==
    /\ \/ /\ input_method = "Upload Documents"
          /\ uploaded_files \in SeqsUpTo(FileSet, MaxFiles)
          /\ edited_df = <<>>
       \/ /\ input_method = "Manual Entry"
          /\ uploaded_files = <<>>
          /\ edited_df \in SeqsUpTo(GridRowSet, MaxRows)
    /\ file_idx = 1 /\ row_idx = 1
    /\ all_docs = <<>> /\ documents = <<>>
    /\ st_errors = <<>> /\ st_warnings = <<>>
    /\ now \in {D0605, D0701}
    /\ ButtonIdle /\ RenderIdle

NextExtract == ProcessUploadedFile \/ ConvertGridRow

SpecExtract == InitExtract /\ [][NextExtract]_vars


-----------------------------------------------------------------------------
(* Claims about the extractors, checked under SpecExtract                   *)

RECURSIVE Flatten(_)
Flatten(ss) == IF ss = <<>> THEN <<>> ELSE Head(ss) \o Flatten(Tail(ss))

Range(s) == {s[i] : i \in 1..Len(s)}

UploadDone == input_method = "Upload Documents" /\ file_idx > Len(uploaded_files)
GridDone   == input_method = "Manual Entry" /\ row_idx > Len(edited_df)

\* The column is missing from the table, or the row's cell is empty.
Absent(f, k, col) == col \notin f.columns \/ f.rows[k][col] = <<>>

\* C3: in the CSV extractor a missing column or an empty cell of vendor,
\* amount or gst gives the default: vendor "Unknown", amount 0, gst 0.
\* Stated for a batch of one CSV file none of whose rows was skipped, so
\* that row k of the file is transaction k.
C3_CsvDefaults ==
    (/\ UploadDone /\ Len(uploaded_files) = 1
     /\ ~IsPdf(uploaded_files[1]) /\ uploaded_files[1].columns # {}
     /\ st_warnings = <<>>)
    => LET f == uploaded_files[1]
       IN  /\ Len(all_docs) = Len(f.rows)
           /\ \A k \in 1..Len(f.rows) :
                /\ Absent(f, k, "vendor") => all_docs[k].vendor = Unknown
                /\ Absent(f, k, "amount") => all_docs[k].amount = Num(0)
                /\ Absent(f, k, "gst")    => all_docs[k].gst = Num(0)

\* The half of C3 that the code keeps: a column missing from the whole
\* table gives the default.
C3_MissingColumnDefaults ==
    (/\ UploadDone /\ Len(uploaded_files) = 1
     /\ ~IsPdf(uploaded_files[1]) /\ uploaded_files[1].columns # {}
     /\ st_warnings = <<>>)
    => LET f == uploaded_files[1]
       IN  \A k \in 1..Len(f.rows) :
             /\ "vendor" \notin f.columns => all_docs[k].vendor = Unknown
             /\ "amount" \notin f.columns => all_docs[k].amount = Num(0)
             /\ "gst" \notin f.columns    => all_docs[k].gst = Num(0)

\* What float() makes of the amount and gst cells of a CSV row / grid row.
CsvNumbers(f, k) ==
    <<float(row_get(f, f.rows[k], "amount", PyNum(0))),
      float(row_get(f, f.rows[k], "gst", PyNum(0)))>>
GridNumbers(row) == <<float(row.Amount), float(row.GST)>>
BothOk(n)  == n[1].ok /\ n[2].ok
Values(n)  == <<n[1].val, n[2].val>>

\* The rows of a CSV file whose amount and gst coerce, in input order, and
\* the indices of the others.
RECURSIVE KeptCsv(_, _)
KeptCsv(f, k) ==
    IF k > Len(f.rows) THEN <<>>
    ELSE (IF BothOk(CsvNumbers(f, k))
          THEN << <<str(row_get(f, f.rows[k], "date", PyStr(now))),
                    Values(CsvNumbers(f, k))>> >>
          ELSE <<>>) \o KeptCsv(f, k + 1)
RECURSIVE SkippedCsv(_, _, _)
SkippedCsv(f, i, k) ==
    IF k > Len(f.rows) THEN <<>>
    ELSE (IF BothOk(CsvNumbers(f, k)) THEN <<>> ELSE << <<i, k - 1>> >>)
            \o SkippedCsv(f, i, k + 1)
RECURSIVE KeptGrid(_, _)
KeptGrid(rows, n) ==
    IF n = 0 THEN <<>>
    ELSE KeptGrid(rows, n - 1) \o
           (IF BothOk(GridNumbers(rows[n]))
            THEN << <<str(rows[n].Date), Values(GridNumbers(rows[n]))>> >>
            ELSE <<>>)
RECURSIVE SkippedGrid(_, _)
SkippedGrid(rows, n) ==
    IF n = 0 THEN <<>>
    ELSE SkippedGrid(rows, n - 1) \o
           (IF BothOk(GridNumbers(rows[n])) THEN <<>> ELSE << <<0, n - 1>> >>)

Brief(docs) == [i \in 1..Len(docs) |-> <<docs[i].date, <<docs[i].amount, docs[i].gst>> >>]

CsvOnly(n) ==
    \A i \in 1..n : ~IsPdf(uploaded_files[i]) /\ uploaded_files[i].columns # {}

\* C4: in the CSV and manual channels the transactions are exactly the rows
\* whose amount and gst coerce to numbers, in input order; each other row is
\* left out with one warning and the rows after it are still processed.
\* (The aggregator reads nothing but these transactions, so a row left out
\* reaches no total.)
C4_SkipFailingRows ==
    /\ (input_method = "Upload Documents" /\ CsvOnly(file_idx - 1))
       => /\ Brief(all_docs) =
               Flatten([i \in 1..(file_idx - 1) |-> KeptCsv(uploaded_files[i], 1)])
          /\ st_warnings =
               Flatten([i \in 1..(file_idx - 1) |-> SkippedCsv(uploaded_files[i], i, 1)])
          /\ UploadDone /\ all_docs # <<>> => documents = all_docs
    /\ input_method = "Manual Entry"
       => /\ Brief(documents) = KeptGrid(edited_df, row_idx - 1)
          /\ st_warnings = SkippedGrid(edited_df, row_idx - 1)

\* C4's case: a row that failed was skipped and a row after it was kept,
\* in a CSV file and in the grid.
C4_Witness_Csv ==
    /\ UploadDone /\ Len(uploaded_files) = 1 /\ CsvOnly(1)
    /\ Len(uploaded_files[1].rows) = 2
    /\ st_warnings = << <<1, 0>> >> /\ Len(all_docs) = 1
C4_Witness_Grid ==
    /\ GridDone /\ Len(edited_df) = 2
    /\ st_warnings = << <<0, 0>> >> /\ Len(documents) = 1
C4_Witness == C4_Witness_Csv \/ C4_Witness_Grid

\* A Total: or GST: line of the page whose number text float() rejects.
BadNumberLine(line) ==
    /\ ~HasTok(line, "Vendor:") /\ ~HasTok(line, "Date:")
    /\ \/ HasTok(line, "Total:") /\ ~ParseFloat(NumberText(line, "Total:")).ok
       \/ /\ ~HasTok(line, "Total:") /\ HasTok(line, "GST:")
          /\ ~ParseFloat(NumberText(line, "GST:")).ok
Malformed(f) ==
    IsPdf(f) /\ \E p \in 1..Len(f.pages) :
                   \E l \in 1..Len(f.pages[p].lines) : BadNumberLine(f.pages[p].lines[l])

\* What a file contributes when it is the only file of the batch.
Alone(f) ==
    LET r == ExtractFile(f, now) IN IF r.raised THEN <<>> ELSE r.documents

NotNegative(x) == x.nan \/ x.v >= 0

\* C6: every transaction an extractor adds has amount >= 0 and gst >= 0.
C6_NonNegative ==
    \A d \in Range(documents) \cup Range(all_docs) :
        NotNegative(d.amount) /\ NotNegative(d.gst)


-----------------------------------------------------------------------------
(* The report button on documents the extractors can produce                *)

MaxDocs == 3

\* Each is a Document some row or page yields: the spec's INV-101 kind, a
\* document with both GST issues, one whose gst is exactly 30% of its amount
\* on the window's last day, one dated after the window, one with a date in
\* another format, one of another type, one read from empty cells, and one
\* with negative numbers.
DocSet ==
    {Document(<<"I", "N", "V", "1">>, D0605, <<"A">>, Num(1000), Num(180), income),
     Document(<<"X", "2">>, D0605, <<"B">>, Num(100), Num(40), expense),
     Document(<<"g", "s", "t", "3">>, D0630, <<"B">>, Num(100), Num(30), expense),
     Document(<<"X", "4">>, D0701, <<"A">>, Num(500), Num(200), income),
     Document(<<"B", "5">>, DSlash, <<"A">>, Num(70), Num(0), income),
     Document(<<"X", "6">>, D0605, Unknown, Num(9), NaN, <<"n", "a", "n">>),
     Document(<<"X", "7">>, D0605, <<"n", "a", "n">>, NaN, Num(5), expense),
     Document(<<"X", "8">>, D0605, <<"B">>, Num(0 - 50), Num(0 - 9), income)}

\* start_date <= end_date is enforced at lines 337-339.
WindowSet ==
    {<< <<2023, 6, 1>>, <<2023, 6, 30>> >>,
     << <<2023, 6, 5>>, <<2023, 6, 5>> >>,
     << <<2023, 7, 1>>, <<2023, 7, 31>> >>}

ExtractIdle ==
    /\ input_method = "Manual Entry" /\ uploaded_files = <<>> /\ edited_df = <<>>
    /\ file_idx = 1 /\ row_idx = 1 /\ all_docs = <<>>
    /\ st_errors = <<>> /\ st_warnings = <<>> /\ now = D0605

InitReport ==
    /\ documents \in SeqsUpTo(DocSet, MaxDocs)
    /\ \E w \in WindowSet : start_date = w[1] /\ end_date = w[2]
    /\ pc = "idle" /\ report = <<>> /\ exc = "none"
    /\ disk = {} /\ pdf_path = "none"
    /\ ExtractIdle /\ RenderIdle

NextReport == ClickGenerate \/ CreatePdf \/ HandOff \/ Unlink

SpecReport == InitReport /\ [][NextReport]_vars

-----------------------------------------------------------------------------
(* Claims about the aggregator and the temporary file, under SpecReport     *)

\* generate_audit_report was called / returned a report.
Called     == pc \notin {"idle", "stopped"}
ReportMade == Called /\ ~(pc = "failed" /\ exc = "KeyError")

\* The document's date parses as YYYY-MM-DD and lies in [start, end].
InWindow(d) ==
    /\ strptime(d.date).ok
    /\ DateLE(start_date, strptime(d.date).date)
    /\ DateLE(strptime(d.date).date, end_date)

\* The sum of amount over the in-window documents of type t (an amount
\* that is NaN counts as nothing).
RECURSIVE WindowSum(_, _)
WindowSum(n, t) ==
    IF n = 0 THEN 0
    ELSE WindowSum(n - 1, t) +
           (IF InWindow(documents[n]) /\ documents[n].type = t
               /\ ~documents[n].amount.nan
            THEN documents[n].amount.v ELSE 0)

NoGstSentinel == << <<"No GST-related transactions found">> >>

\* C1: when no transaction passes the date filter, generate_audit_report
\* raises nothing and returns a report with total income, total expense,
\* net balance, expense ratio, profit margin and transaction count all 0
\* and the no-GST sentinel line.
C1_EmptyFilteredReport ==
    (Called /\ \A i \in 1..Len(documents) : ~InWindow(documents[i]))
    => /\ ReportMade
       /\ report.total_income = 0 /\ report.total_expense = 0
       /\ report.net_balance = 0 /\ report.total_invoices = 0
       /\ report.expense_ratio = Zero /\ report.profit_margin = Zero
       /\ report.gst = NoGstSentinel

\* C2: at the end of a report generation no temporary file is left on disk,
\* whether the hand-off succeeded, the hand-off raised, or the write raised.
C2_TempFileDeleted ==
    pc \in {"done", "failed", "stopped"} => disk = {}

\* The path of C2 that the code keeps: a generation that ends without an
\* exception leaves no temporary file.
C2_DeletedOnSuccess ==
    pc = "done" => disk = {}

\* C7: the run never fails on a transaction with an unparseable date, a date
\* outside the window or another type; total income / expense are the sums
\* of amount over the in-window income / expense transactions and net
\* balance is their difference.
C7_WindowTotals ==
    Called
    => /\ ReportMade
       /\ report.total_income = WindowSum(Len(documents), income)
       /\ report.total_expense = WindowSum(Len(documents), expense)
       /\ report.net_balance = report.total_income - report.total_expense

\* The part of C7 that the code keeps: the totals of every report made.
C7_TotalsOfReportsMade ==
    ReportMade
    => /\ report.total_income = WindowSum(Len(documents), income)
       /\ report.total_expense = WindowSum(Len(documents), expense)
       /\ report.net_balance = report.total_income - report.total_expense

\* C8: for every transaction set whose total income is 0 the report's
\* expense ratio and profit margin are 0, whatever the total expense.
C8_ZeroIncomeRatios ==
    (Called /\ WindowSum(Len(documents), income) = 0)
    => /\ ReportMade
       /\ report.expense_ratio = Zero /\ report.profit_margin = Zero

\* The part of C8 that the code keeps: in every report made with total
\* income 0 both ratios are 0.
C8_ZeroIncomeRatiosOfReportsMade ==
    (ReportMade /\ report.total_income = 0)
    => report.expense_ratio = Zero /\ report.profit_margin = Zero

\* The in-window documents with gst > 0, in transaction order.
RECURSIVE WindowGst(_)
WindowGst(n) ==
    IF n = 0 THEN <<>>
    ELSE WindowGst(n - 1) \o
           (IF InWindow(documents[n]) /\ ~documents[n].gst.nan
               /\ documents[n].gst.v > 0
            THEN <<documents[n]>> ELSE <<>>)

\* The ID finding and the ratio finding of one document, as C9 states them.
NamesNoToken(d) ==
    \A tok \in {<<"G", "S", "T">>, <<"I", "N", "V">>, <<"B", "I", "L", "L">>} :
       \A i \in 1..(Len(d.id) - Len(tok) + 1) :
          Upper(SubSeq(d.id, i, i + Len(tok) - 1)) # tok
OverThirtyPercent(d) == ~d.amount.nan /\ 10 * d.gst.v > 3 * d.amount.v
Findings(d) ==
    (IF NamesNoToken(d) THEN << <<"Invalid document ID", d.id>> >> ELSE <<>>)
      \o (IF OverThirtyPercent(d)
          THEN << <<"Unusual GST amount", d.gst, d.amount>> >> ELSE <<>>)
RECURSIVE FindingsOf(_)
FindingsOf(ds) ==
    IF ds = <<>> THEN <<>> ELSE Findings(Head(ds)) \o FindingsOf(Tail(ds))
AllFindings == FindingsOf(WindowGst(Len(documents)))
RECURSIVE SumGst(_)
SumGst(ds) == IF ds = <<>> THEN 0 ELSE Head(ds).gst.v + SumGst(Tail(ds))

\* C9: findings come only from in-window transactions with gst > 0, in
\* transaction order: an ID finding iff the id holds none of GST, INV, BILL
\* in any case, a ratio finding iff gst > 0.3 * amount; the report lists
\* the first 3 findings at most; total GST sums gst over all of those
\* transactions.
C9_GstFindings ==
    ReportMade
    => LET gd == WindowGst(Len(documents))
           fs == FindingsOf(gd)
       IN  IF gd = <<>> THEN report.gst = NoGstSentinel
           ELSE /\ report.gst[1] = <<"Total GST Processed", SumGst(gd)>>
                /\ Len(report.gst) =
                     (IF fs = <<>> THEN 1
                      ELSE IF Len(fs) > 3 THEN 5
                      ELSE Len(fs) + 2)
                /\ fs # <<>> => report.gst[2] = <<"GST Issues">>
                /\ \A k \in 3..Len(report.gst) : report.gst[k] = fs[k - 2]

\* C9's case: more than 3 findings, of which 3 are listed, and among the
\* GST transactions one whose gst is exactly 30% of its amount.
C9_Witness ==
    /\ ReportMade
    /\ Len(AllFindings) > 3 /\ Len(report.gst) = 5
    /\ \E i \in 1..Len(documents) :
         /\ InWindow(documents[i]) /\ ~documents[i].amount.nan
         /\ documents[i].gst.v > 0
         /\ 10 * documents[i].gst.v = 3 * documents[i].amount.v


-----------------------------------------------------------------------------
(* create_pdf on report texts                                               *)

\* Names, vendors and ids as a user can type them.
StringSet ==
    {<<"A", "c", "m", "e">>,
     <<"RUPEE", "5", "ELLIPSIS">>,
     <<"LDQUO", "a", "RDQUO", " ", "EMDASH", " ", "LSQUO", "b", "RSQUO", "ENDASH">>,
     <<" ", "EMOJI_REPORT", "CHECKMARK", " ">>,
     <<"E_ACUTE", "CJK", "SPARKLES">>,
     <<" ">>,
     <<"#", "#", " ", "RUPEE">>}

\* A report as generate_audit_report lays it out: the title line with the
\* business name, then sections headed by "## ".
ReportText(name, heading, line1, line2) ==
    <<"#", " ">> \o name \o AuditReport \o <<"NL">>
      \o <<"#", "#", " ">> \o heading \o <<"NL", "NL">>
      \o <<"-", " ">> \o line1 \o <<"NL">>
      \o <<"#", "#", " ", "G", "S", "T", "NL">>
      \o line2 \o <<"NL">>

InitRender ==
    /\ business_name \in StringSet
    /\ \E h \in StringSet, l1 \in StringSet, l2 \in StringSet :
          report_text = ReportText(business_name, h, l1, l2)
    /\ pdf_calls = <<>>
    /\ ExtractIdle /\ ButtonIdle /\ documents = <<>>

NextRender == RenderPdf

SpecRender == InitRender /\ [][NextRender]_vars

\* What C10 says a character becomes: the ASCII substitute of the currency
\* symbol, a smart quote, a dash or the ellipsis; the bracketed word of a
\* pictogram; "?" for any other character outside the encoding; itself
\* otherwise.
Substitute(c) ==
    CASE c = "RUPEE" -> <<"R", "s", ".">>
      [] c \in {"LSQUO", "RSQUO"} -> <<"'">>
      [] c \in {"LDQUO", "RDQUO"} -> <<"\"">>
      [] c \in {"ENDASH", "EMDASH"} -> <<"-">>
      [] c = "ELLIPSIS" -> <<".", ".", ".">>
      [] c = "EMOJI_REPORT" -> <<"[", "R", "E", "P", "O", "R", "T", "]">>
      [] c = "EMOJI_DATE" -> <<"[", "D", "A", "T", "E", "]">>
      [] c = "EMOJI_SUMMARY" -> <<"[", "S", "U", "M", "M", "A", "R", "Y", "]">>
      [] c = "EMOJI_ANALYSIS" -> <<"[", "A", "N", "A", "L", "Y", "S", "I", "S", "]">>
      [] c = "EMOJI_GST" -> <<"[", "G", "S", "T", "]">>
      [] c = "EMOJI_AI" -> <<"[", "A", "I", "]">>
      [] c = "CHECKMARK" -> <<"[", "C", "H", "E", "C", "K", "]">>
      [] c \in {"CJK", "SPARKLES"} -> <<"?">>
      [] OTHER -> <<c>>
Sanitized(text) == Flatten([i \in 1..Len(text) |-> Substitute(text[i])])

\* C10: every text create_pdf hands to cell / multi_cell is the sanitized
\* form of the text it was made from (stripped, for a body line) and holds
\* only characters of the single-byte encoding, so no character of the
\* inputs can make the call raise.
C10_OnlySanitizedText ==
    \A k \in 1..Len(pdf_calls) :
       /\ \A i \in 1..Len(pdf_calls[k].txt) : pdf_calls[k].txt[i] \notin NonLatin1
       /\ pdf_calls[k].txt \in {Sanitized(pdf_calls[k].raw),
                                Strip(Sanitized(pdf_calls[k].raw))}
       /\ k = 1 => pdf_calls[k].raw = business_name \o AuditReport

\* C10's case: the title, a section title and a body line each held a
\* character outside the encoding, and all were handed over.
C10_Witness ==
    /\ Len(pdf_calls) >= 5
    /\ \E i \in 1..Len(business_name) : business_name[i] = "RUPEE"
    /\ \E k \in 3..Len(pdf_calls) :
          /\ \E i \in 1..Len(pdf_calls[k].raw) : pdf_calls[k].raw[i] = "CJK"
          /\ \E i \in 1..Len(pdf_calls[k].txt) : pdf_calls[k].txt[i] = "?"
    /\ \E k \in 3..Len(pdf_calls) :
          \E i \in 1..Len(pdf_calls[k].raw) : pdf_calls[k].raw[i] = "EMDASH"

=============================================================================
